---- MODULE Spec2Model ----
\* Model of the background hostname resolver cache of src/resolver.go:
\* the registry (svc.hosts), the per-host refresh goroutines started by AddHost,
\* and the query operations, at the granularity of the individual reads and
\* writes of record fields that the code performs without holding s.mu.
EXTENDS Integers, Sequences, FiniteSets, TLC

\* ---------------------------------------------------------------------------
\* Bounds of the model
\* ---------------------------------------------------------------------------

\* Total number of records (and so of refresh goroutines) ever created.
MaxRecs == 2

\* Number of lookups that succeed, over all refresh goroutines.
MaxLookups == 2

\* Number of concurrent threads of the calling layer.
NumCallers == 1

\* Longest run of GetNextIPWithIdx calls the rotation history follows, and the
\* number of callers racing for them (SpecRR).
MaxCalls == 4

NumRRCallers == 2

Hosts == {"a", "b"}

Callers == 1..NumCallers

RRCallers == 1..NumRRCallers

Loops == 1..MaxRecs

\* ---------------------------------------------------------------------------
\* Address strings, byte-wise comparison, parsing
\* ---------------------------------------------------------------------------

\* The address strings the lookup can return, and their bytes.
AddrStrings == {"10.0.0.1", "10.0.0.2", "10.0.0.3", "::1", "not-an-ip"}

Chars(s) ==
  CASE s = "10.0.0.1"  -> <<49, 48, 46, 48, 46, 48, 46, 49>>
    [] s = "10.0.0.2"  -> <<49, 48, 46, 48, 46, 48, 46, 50>>
    [] s = "10.0.0.3"  -> <<49, 48, 46, 48, 46, 48, 46, 51>>
    [] s = "::1"       -> <<58, 58, 49>>
    [] s = "not-an-ip" -> <<110, 111, 116, 45, 97, 110, 45, 105, 112>>
    [] s = "a"         -> <<97>>
    [] s = "b"         -> <<98>>
    [] s = ""          -> <<>>

\* A nil slice (nil []string, nil []net.IP, nil net.IP): length 0.
Nil == <<>>

Dot == 46

Colon == 58

IsDigit(c) == c >= 48 /\ c <= 57

IsHex(c) == IsDigit(c) \/ (c >= 97 /\ c <= 102) \/ (c >= 65 /\ c <= 70)

HexVal(c) == IF IsDigit(c) THEN c - 48 ELSE IF c >= 97 THEN c - 87 ELSE c - 55

\* strings.Contains(s, ":") and friends, on the bytes of s.
ContainsByte(cs, b) == \E i \in 1..Len(cs) : cs[i] = b

RECURSIVE SplitBytes(_, _)
\* The fields of cs separated by byte b (strings.Split).
SplitBytes(cs, b) ==
  IF ~ContainsByte(cs, b) THEN <<cs>>
  ELSE LET i == CHOOSE k \in 1..Len(cs) :
                  cs[k] = b /\ \A j \in 1..(k - 1) : cs[j] # b
       IN  <<SubSeq(cs, 1, i - 1)>> \o SplitBytes(SubSeq(cs, i + 1, Len(cs)), b)

RECURSIVE DecVal(_)
DecVal(f) == IF f = <<>> THEN 0 ELSE DecVal(SubSeq(f, 1, Len(f) - 1)) * 10 + (f[Len(f)] - 48)

RECURSIVE HexNum(_)
HexNum(f) == IF f = <<>> THEN 0 ELSE HexNum(SubSeq(f, 1, Len(f) - 1)) * 16 + HexVal(f[Len(f)])

\* One decimal field of a dotted quad: 1..3 digits, no leading zero, <= 255.
IsV4Field(f) ==
  /\ Len(f) >= 1 /\ Len(f) <= 3
  /\ \A i \in 1..Len(f) : IsDigit(f[i])
  /\ (Len(f) > 1 => f[1] # 48)
  /\ DecVal(f) <= 255

\* The 16-byte form net.ParseIP returns for a dotted quad.
V4Prefix == <<0, 0, 0, 0, 0, 0, 0, 0, 0, 0, 255, 255>>

ParseIPv4(cs) ==
  LET fs == SplitBytes(cs, Dot)
  IN  IF Len(fs) = 4 /\ \A i \in 1..4 : IsV4Field(fs[i])
      THEN V4Prefix \o [i \in 1..4 |-> DecVal(fs[i])]
      ELSE Nil

\* One group of an IPv6 literal: 1..4 hex digits.
IsV6Group(f) == Len(f) >= 1 /\ Len(f) <= 4 /\ \A i \in 1..Len(f) : IsHex(f[i])

RECURSIVE GroupBytes(_)
GroupBytes(gs) ==
  IF gs = <<>> THEN <<>>
  ELSE <<HexNum(gs[1]) \div 256, HexNum(gs[1]) % 256>> \o GroupBytes(Tail(gs))

\* The positions where cs holds "::".
Ellipses(cs) == {i \in 1..(Len(cs) - 1) : cs[i] = Colon /\ cs[i + 1] = Colon}

\* The groups of a colon-separated run ("" has none).
Groups(cs) == IF cs = <<>> THEN <<>> ELSE SplitBytes(cs, Colon)

\* IPv6 literals of hex groups with at most one "::" (no zone, no dotted tail).
ParseIPv6(cs) ==
  LET es == Ellipses(cs)
  IN  IF es = {}
      THEN LET gs == Groups(cs)
           IN  IF Len(gs) = 8 /\ \A i \in 1..8 : IsV6Group(gs[i])
               THEN GroupBytes(gs) ELSE Nil
      ELSE LET e  == CHOOSE i \in es : \A j \in es : i <= j
               hd == Groups(SubSeq(cs, 1, e - 1))
               tl == Groups(SubSeq(cs, e + 2, Len(cs)))
               z  == 8 - Len(hd) - Len(tl)
           IN  IF /\ Cardinality(es) = 1
                  /\ z >= 1
                  /\ \A i \in 1..Len(hd) : IsV6Group(hd[i])
                  /\ \A i \in 1..Len(tl) : IsV6Group(tl[i])
               THEN GroupBytes(hd) \o [i \in 1..(2 * z) |-> 0] \o GroupBytes(tl)
               ELSE Nil

\* net.ParseIP: the first '.' or ':' of the string decides the syntax tried;
\* a string with neither is not an address.
ParseIP(s) ==
  LET cs == Chars(s)
      ks == {i \in 1..Len(cs) : cs[i] = Dot \/ cs[i] = Colon}
  IN  IF ks = {} THEN Nil
      ELSE LET k == CHOOSE i \in ks : \A j \in ks : i <= j
           IN  IF cs[k] = Dot THEN ParseIPv4(cs) ELSE ParseIPv6(cs)

RECURSIVE BytesLess(_, _)
\* Go's string order: byte-wise lexicographic, a proper prefix first.
BytesLess(x, y) ==
  IF y = <<>> THEN FALSE
  ELSE IF x = <<>> THEN TRUE
  ELSE IF x[1] # y[1] THEN x[1] < y[1]
  ELSE BytesLess(Tail(x), Tail(y))

StrLess(a, b) == BytesLess(Chars(a), Chars(b))

RECURSIVE InsertSorted(_, _)
InsertSorted(x, ss) ==
  IF ss = <<>> THEN <<x>>
  ELSE IF StrLess(x, ss[1]) THEN <<x>> \o ss
  ELSE <<ss[1]>> \o InsertSorted(x, Tail(ss))

RECURSIVE SortStrings(_)
\* sort.Strings: the strings of ss in ascending order, duplicates kept.
SortStrings(ss) ==
  IF ss = <<>> THEN <<>> ELSE InsertSorted(ss[1], SortStrings(Tail(ss)))

RECURSIVE MapParse(_)
MapParse(ss) == IF ss = <<>> THEN <<>> ELSE <<ParseIP(ss[1])>> \o MapParse(Tail(ss))

\* The locals updateHostIPs builds from the lookup result sip: strings in
\* sorted order, parsed forms in the order of sip.
IsV4Str(ip) == ParseIP(ip) # Nil /\ ~ContainsByte(Chars(ip), Colon)

IsV6Str(ip) == ParseIP(ip) # Nil /\ ContainsByte(Chars(ip), Colon)

NewIp4(sip) == SortStrings(SelectSeq(sip, IsV4Str))

NewIp6(sip) == SortStrings(SelectSeq(sip, IsV6Str))

NewIpv4(sip) == MapParse(SelectSeq(sip, IsV4Str))

NewIpv6(sip) == MapParse(SelectSeq(sip, IsV6Str))

\* The lists net.LookupHost answers with in this model, per host name.
LookupResults(host) ==
  IF host = "a"
  THEN { <<"10.0.0.1", "10.0.0.2", "10.0.0.3">>,
         <<"10.0.0.2", "not-an-ip", "::1", "10.0.0.1">>,
         <<"not-an-ip">> }
  ELSE { <<"10.0.0.3">> }

\* ---------------------------------------------------------------------------
\* State
\* ---------------------------------------------------------------------------

VARIABLES
  hosts,     \* svc.hosts: host name -> record (0: no entry for the name)
  recs,      \* the ips records allocated so far; record k is recs[k]
  mu,        \* svc.mu: the caller holding it exclusively, 0 when nobody does
  lpc,       \* position of refresh goroutine k (started for record k)
  lhost,     \* the host goroutine k was started for
  lsip,      \* goroutine k: the list its last successful lookup returned
  lr,        \* goroutine k inside updateHostIPs: its local r (0: none)
  cpc,       \* position of each caller thread
  cl,        \* each caller's current call: operation, arguments, locals, results
  rot,       \* history of the rotation (see SpecRR)
  nlook,     \* number of lookups that have succeeded
  panicked   \* a run-time panic (index out of range) has ended the process

vars == <<hosts, recs, mu, lpc, lhost, lsip, lr, cpc, cl, rot, nlook, panicked>>

\* &ips{}: the zero record AddHost inserts.
EmptyRec == [idx |-> 0, ip4 |-> Nil, ip6 |-> Nil, ipv4 |-> Nil, ipv6 |-> Nil]

\* A caller between two calls, and the frame of locals and results of a call.
CIdle ==
  [op |-> "", host |-> "", ok |-> FALSE, r |-> 0, n |-> 0, sl |-> Nil,
   at |-> 0, ip |-> "", idx |-> 0, v4 |-> Nil, v6 |-> Nil,
   prefix |-> "", hs |-> Nil, w |-> <<>>]

Call(op, host, ok, r) == [CIdle EXCEPT !.op = op, !.host = host, !.ok = ok, !.r = r]

InRegistry(h) == hosts[h] # 0

\* The rotation history: the cursor when it began, and the (index, address)
\* results of the GetNextIPWithIdx calls that returned an address since.
NoRun == [base |-> 0, seq |-> <<>>]

Init ==
  /\ hosts = [h \in Hosts |-> 0]
  /\ recs = <<>>
  /\ mu = 0
  /\ lpc = [l \in Loops |-> "idle"]
  /\ lhost = [l \in Loops |-> ""]
  /\ lsip = [l \in Loops |-> Nil]
  /\ lr = [l \in Loops |-> 0]
  /\ cpc = [c \in Callers |-> "idle"]
  /\ cl = [c \in Callers |-> CIdle]
  /\ rot = NoRun
  /\ nlook = 0
  /\ panicked = FALSE

\* ---------------------------------------------------------------------------
\* Registry operations (each runs wholly under s.mu.Lock)
\* ---------------------------------------------------------------------------

\* The callers holding s.mu shared over several steps: those inside DumpPrefix.
RHeld == {c \in DOMAIN cpc : cpc[c] \in {"dp_v4", "dp_v6"}}

\* Caller c is between two calls and s.mu.Lock() can return.
CanLock(c) == ~panicked /\ cpc[c] \in {"idle", "ret"} /\ mu = 0 /\ RHeld = {}

\* Caller c is between two calls and s.mu.RLock() can return.
CanRLock(c) == ~panicked /\ cpc[c] \in {"idle", "ret"} /\ mu = 0

Returns(c, res) ==
  /\ cpc' = [cpc EXCEPT ![c] = "ret"]
  /\ cl' = [cl EXCEPT ![c] = res]

\* AddHost without the test of line 48.
AddHostAlways(c, host) ==
  /\ CanLock(c)
  /\ Len(recs) < MaxRecs
  /\ recs' = Append(recs, EmptyRec)
  /\ hosts' = [hosts EXCEPT ![host] = Len(recs) + 1]
  /\ lpc' = [lpc EXCEPT ![Len(recs) + 1] = "lookup"]
  /\ lhost' = [lhost EXCEPT ![Len(recs) + 1] = host]
  /\ Returns(c, Call("AddHost", host, InRegistry(host), Len(recs) + 1))
  /\ UNCHANGED <<mu, lsip, lr, panicked>>

AddHost(c, host) ==
  /\ CanLock(c)
  /\ IF InRegistry(host)
     THEN /\ Returns(c, Call("AddHost", host, TRUE, hosts[host]))
          /\ UNCHANGED <<hosts, recs, mu, lpc, lhost, lsip, lr, panicked>>
     ELSE /\ Len(recs) < MaxRecs
          /\ recs' = Append(recs, EmptyRec)
          /\ hosts' = [hosts EXCEPT ![host] = Len(recs) + 1]
          /\ lpc' = [lpc EXCEPT ![Len(recs) + 1] = "lookup"]
          /\ lhost' = [lhost EXCEPT ![Len(recs) + 1] = host]
          /\ Returns(c, Call("AddHost", host, FALSE, Len(recs) + 1))
          /\ UNCHANGED <<mu, lsip, lr, panicked>>

\* A removal that leaves the entry in the map.
DelHostKeepsRecord(c, host) ==
  /\ CanLock(c)
  /\ hosts' = hosts
  /\ Returns(c, Call("DelHost", host, InRegistry(host), 0))
  /\ UNCHANGED <<recs, mu, lpc, lhost, lsip, lr, panicked>>

DelHost(c, host) ==
  /\ CanLock(c)
  /\ hosts' = [hosts EXCEPT ![host] = 0]
  /\ Returns(c, Call("DelHost", host, InRegistry(host), 0))
  /\ UNCHANGED <<recs, mu, lpc, lhost, lsip, lr, panicked>>

\* A shutdown that takes the hosts out of the map one call at a time.
StopOneByOne(c) ==
  /\ CanLock(c)
  /\ \E h \in Hosts :
       /\ InRegistry(h) \/ \A g \in Hosts : ~InRegistry(g)
       /\ hosts' = [hosts EXCEPT ![h] = 0]
  /\ Returns(c, Call("Stop", "", FALSE, 0))
  /\ UNCHANGED <<recs, mu, lpc, lhost, lsip, lr, panicked>>

Stop(c) ==
  /\ CanLock(c)
  /\ hosts' = [h \in Hosts |-> 0]
  /\ Returns(c, Call("Stop", "", FALSE, 0))
  /\ UNCHANGED <<recs, mu, lpc, lhost, lsip, lr, panicked>>

\* ---------------------------------------------------------------------------
\* Queries
\* ---------------------------------------------------------------------------

\* A cursor that is wrapped but not advanced.
NextIdxStuck(idx, itemsCount) == idx % itemsCount

\* The cursor after one advance over itemsCount addresses.
NextIdx(idx, itemsCount) == (idx + 1) % itemsCount

\* A zero value in place of the "no address" result.
NoAddressZero(host, ok, r) ==
  [Call("GetNextIPWithIdx", host, ok, r) EXCEPT !.ip = "", !.idx = 0]

\* What GetNextIPWithIdx returns when there is no address to give.
NoAddress(host, ok, r) ==
  [Call("GetNextIPWithIdx", host, ok, r) EXCEPT !.ip = "", !.idx = -1]

\* Lines 95-98 and 110: take the lock, look the host up.
GetNextBegin(c, host) ==
  /\ CanLock(c)
  /\ IF InRegistry(host)
     THEN /\ mu' = c
          /\ cpc' = [cpc EXCEPT ![c] = "gn_len"]
          /\ cl' = [cl EXCEPT ![c] = Call("GetNextIPWithIdx", host, TRUE, hosts[host])]
     ELSE /\ Returns(c, NoAddress(host, FALSE, 0))
          /\ mu' = mu
  /\ UNCHANGED <<hosts, recs, lpc, lhost, lsip, lr, panicked>>

\* Lines 100-103: itemsCount := len(r.ip4).
GetNextLen(c) ==
  /\ ~panicked /\ cpc[c] = "gn_len"
  /\ LET itemsCount == Len(recs[cl[c].r].ip4)
     IN  IF itemsCount = 0
         THEN /\ Returns(c, NoAddress(cl[c].host, TRUE, cl[c].r))
              /\ mu' = 0
         ELSE /\ cpc' = [cpc EXCEPT ![c] = "gn_ridx"]
              /\ cl' = [cl EXCEPT ![c].n = itemsCount]
              /\ mu' = mu
  /\ UNCHANGED <<hosts, recs, lpc, lhost, lsip, lr, panicked>>

\* Line 105, r.idx = (r.idx + 1) % itemsCount: the read of r.idx ...
GetNextReadIdx(c) ==
  /\ ~panicked /\ cpc[c] = "gn_ridx"
  /\ cpc' = [cpc EXCEPT ![c] = "gn_widx"]
  /\ cl' = [cl EXCEPT ![c].idx = recs[cl[c].r].idx]
  /\ UNCHANGED <<hosts, recs, mu, lpc, lhost, lsip, lr, panicked>>

\* A cursor shared by all records.
GetNextWriteIdxAll(c) ==
  /\ ~panicked /\ cpc[c] = "gn_widx"
  /\ recs' = [k \in DOMAIN recs |-> [recs[k] EXCEPT !.idx = NextIdx(cl[c].idx, cl[c].n)]]
  /\ cpc' = [cpc EXCEPT ![c] = "gn_rip"]
  /\ cl' = [cl EXCEPT ![c].idx = 0, ![c].n = 0]
  /\ UNCHANGED <<hosts, mu, lpc, lhost, lsip, lr, panicked>>

\* ... and the write of r.idx.
GetNextWriteIdx(c) ==
  /\ ~panicked /\ cpc[c] = "gn_widx"
  /\ recs' = [recs EXCEPT ![cl[c].r].idx = NextIdx(cl[c].idx, cl[c].n)]
  /\ cpc' = [cpc EXCEPT ![c] = "gn_rip"]
  /\ cl' = [cl EXCEPT ![c].idx = 0, ![c].n = 0]
  /\ UNCHANGED <<hosts, mu, lpc, lhost, lsip, lr, panicked>>

\* Line 107, r.ip4[r.idx]: the load of the slice r.ip4 ...
GetNextReadIp4(c) ==
  /\ ~panicked /\ cpc[c] = "gn_rip"
  /\ cpc' = [cpc EXCEPT ![c] = "gn_at"]
  /\ cl' = [cl EXCEPT ![c].sl = recs[cl[c].r].ip4]
  /\ UNCHANGED <<hosts, recs, mu, lpc, lhost, lsip, lr, panicked>>

\* ... and the load of r.idx, the bounds check and the element. An index out
\* of range panics: the deferred Unlock runs and the process ends.
GetNextAt(c) ==
  /\ ~panicked /\ cpc[c] = "gn_at"
  /\ LET i == recs[cl[c].r].idx
     IN  IF i >= 0 /\ i < Len(cl[c].sl)
         THEN /\ cpc' = [cpc EXCEPT ![c] = "gn_ret"]
              /\ cl' = [cl EXCEPT ![c].ip = cl[c].sl[i + 1], ![c].at = i, ![c].sl = Nil]
              /\ UNCHANGED <<mu, panicked>>
         ELSE /\ cpc' = [cpc EXCEPT ![c] = "panic"]
              /\ cl' = [cl EXCEPT ![c].at = i]
              /\ mu' = 0
              /\ panicked' = TRUE
  /\ UNCHANGED <<hosts, recs, lpc, lhost, lsip, lr>>

\* Line 107, the second result r.idx; then the deferred Unlock.
GetNextReturn(c) ==
  /\ ~panicked /\ cpc[c] = "gn_ret"
  /\ Returns(c, [cl[c] EXCEPT !.idx = recs[cl[c].r].idx])
  /\ mu' = 0
  /\ UNCHANGED <<hosts, recs, lpc, lhost, lsip, lr, panicked>>

GetNextIPWithIdx(c) ==
  \/ \E host \in Hosts : GetNextBegin(c, host)
  \/ GetNextLen(c)
  \/ GetNextReadIdx(c)
  \/ GetNextWriteIdx(c)
  \/ GetNextReadIp4(c)
  \/ GetNextAt(c)
  \/ GetNextReturn(c)

\* GetNextIP (lines 86-91): the address of a finished GetNextIPWithIdx call,
\* the index dropped.
GetNextIP(res) == res.ip

\* GetIPs: the map is read under RLock; the two fields of the record are read
\* after RUnlock.
GetIPs(c) ==
  \/ \E host \in Hosts :
       /\ CanRLock(c)
       /\ IF InRegistry(host)
          THEN /\ cpc' = [cpc EXCEPT ![c] = "gi_v4"]
               /\ cl' = [cl EXCEPT ![c] = Call("GetIPs", host, TRUE, hosts[host])]
          ELSE Returns(c, Call("GetIPs", host, FALSE, 0))
       /\ UNCHANGED <<hosts, recs, mu, lpc, lhost, lsip, lr, panicked>>
  \/ /\ ~panicked /\ cpc[c] = "gi_v4"
     /\ cpc' = [cpc EXCEPT ![c] = "gi_v6"]
     /\ cl' = [cl EXCEPT ![c].v4 = recs[cl[c].r].ipv4]
     /\ UNCHANGED <<hosts, recs, mu, lpc, lhost, lsip, lr, panicked>>
  \/ /\ ~panicked /\ cpc[c] = "gi_v6"
     /\ Returns(c, [cl[c] EXCEPT !.v6 = recs[cl[c].r].ipv6])
     /\ UNCHANGED <<hosts, recs, mu, lpc, lhost, lsip, lr, panicked>>

GetIPsStr(c) ==
  \/ \E host \in Hosts :
       /\ CanRLock(c)
       /\ IF InRegistry(host)
          THEN /\ cpc' = [cpc EXCEPT ![c] = "gs_v4"]
               /\ cl' = [cl EXCEPT ![c] = Call("GetIPsStr", host, TRUE, hosts[host])]
          ELSE Returns(c, Call("GetIPsStr", host, FALSE, 0))
       /\ UNCHANGED <<hosts, recs, mu, lpc, lhost, lsip, lr, panicked>>
  \/ /\ ~panicked /\ cpc[c] = "gs_v4"
     /\ cpc' = [cpc EXCEPT ![c] = "gs_v6"]
     /\ cl' = [cl EXCEPT ![c].v4 = recs[cl[c].r].ip4]
     /\ UNCHANGED <<hosts, recs, mu, lpc, lhost, lsip, lr, panicked>>
  \/ /\ ~panicked /\ cpc[c] = "gs_v6"
     /\ Returns(c, [cl[c] EXCEPT !.v6 = recs[cl[c].r].ip6])
     /\ UNCHANGED <<hosts, recs, mu, lpc, lhost, lsip, lr, panicked>>

\* The prefixes DumpPrefix is called with; Dump (lines 139-141) passes "".
Prefixes == {"", "x."}

\* The orders in which `for host := range s.hosts` can deliver the names.
HostOrders ==
  LET names == {h \in Hosts : InRegistry(h)}
  IN  {hs \in [1..Cardinality(names) -> names] : \A h \in names : \E i \in DOMAIN hs : hs[i] = h}

\* Lines numbered from 1.
DumpLinesOneBased(prefix, family, hostName, ss) ==
  [i \in 1..Len(ss) |-> <<prefix, family, hostName, ".", i, ": ", ss[i], "\n">>]

\* The lines the Fprintf loop over the sorted copy ss writes for one family:
\* "%sresolver.v4.%s.%d: %s\n" with prefix, hostName, idx, ip.
DumpLines(prefix, family, hostName, ss) ==
  [i \in 1..Len(ss) |-> <<prefix, family, hostName, ".", i - 1, ": ", ss[i], "\n">>]

\* Lines 145-152: RLock, the names collected and sorted. With no host the
\* loop body never runs and the deferred RUnlock follows at once.
DumpBegin(c, prefix) ==
  /\ CanRLock(c)
  /\ \E order \in HostOrders :
       LET f == [Call("DumpPrefix", "", FALSE, 0) EXCEPT !.prefix = prefix]
       IN  IF order = <<>>
           THEN Returns(c, f)
           ELSE /\ cpc' = [cpc EXCEPT ![c] = "dp_v4"]
                /\ cl' = [cl EXCEPT ![c] = [f EXCEPT !.hs = SortStrings(order)]]
  /\ UNCHANGED <<hosts, recs, mu, lpc, lhost, lsip, lr, panicked>>

\* Lines 155-165 for the first name left: host.ip4 is loaded, copied, the
\* copy sorted and printed.
DumpV4(c) ==
  /\ ~panicked /\ cpc[c] = "dp_v4"
  /\ LET hostName == Head(cl[c].hs)
         ip4 == SortStrings(recs[hosts[hostName]].ip4)
     IN  cl' = [cl EXCEPT ![c].w = @ \o DumpLines(cl[c].prefix, "resolver.v4.", hostName, ip4)]
  /\ cpc' = [cpc EXCEPT ![c] = "dp_v6"]
  /\ UNCHANGED <<hosts, recs, mu, lpc, lhost, lsip, lr, panicked>>

\* Lines 167-175: the same for host.ip6; after the last name the deferred
\* RUnlock runs.
DumpV6(c) ==
  /\ ~panicked /\ cpc[c] = "dp_v6"
  /\ LET hostName == Head(cl[c].hs)
         ip6 == SortStrings(recs[hosts[hostName]].ip6)
     IN  cl' = [cl EXCEPT ![c].w = @ \o DumpLines(cl[c].prefix, "resolver.v6.", hostName, ip6),
                          ![c].hs = Tail(@)]
  /\ cpc' = [cpc EXCEPT ![c] = IF Tail(cl[c].hs) = <<>> THEN "ret" ELSE "dp_v4"]
  /\ UNCHANGED <<hosts, recs, mu, lpc, lhost, lsip, lr, panicked>>

DumpPrefix(c, prefix) ==
  \/ DumpBegin(c, prefix)
  \/ cl[c].prefix = prefix /\ DumpV4(c)
  \/ cl[c].prefix = prefix /\ DumpV6(c)

\* Dump (lines 139-141).
Dump(c) == DumpPrefix(c, "")

\* ---------------------------------------------------------------------------
\* The refresh goroutine of AddHost (lines 54-69) and updateHostIPs
\* ---------------------------------------------------------------------------

\* A lookup made with s.mu taken and not released.
LookupHostLocked(l) ==
  /\ ~panicked /\ lpc[l] = "lookup"
  /\ nlook < MaxLookups
  /\ nlook' = nlook + 1
  /\ mu = 0 /\ mu' = -l
  /\ \E sip \in LookupResults(lhost[l]) : lsip' = [lsip EXCEPT ![l] = sip]
  /\ lpc' = [lpc EXCEPT ![l] = "update"]
  /\ UNCHANGED <<hosts, recs, lhost, lr, cpc, cl, panicked>>

\* Line 57, err == nil: the lookup answers with a list.
LookupHost(l) ==
  /\ ~panicked /\ lpc[l] = "lookup"
  /\ nlook < MaxLookups
  /\ nlook' = nlook + 1
  /\ \E sip \in LookupResults(lhost[l]) : lsip' = [lsip EXCEPT ![l] = sip]
  /\ lpc' = [lpc EXCEPT ![l] = "update"]
  /\ UNCHANGED <<hosts, recs, mu, lhost, lr, cpc, cl, panicked>>

\* A failed lookup that drops the cached addresses.
LookupFailedClears(l) ==
  /\ ~panicked /\ lpc[l] = "lookup"
  /\ lpc' = [lpc EXCEPT ![l] = "failed"]
  /\ recs' = [recs EXCEPT ![l] = EmptyRec]
  /\ UNCHANGED <<hosts, mu, lhost, lsip, lr, cpc, cl, nlook, panicked>>

\* Line 57, err != nil: the lookup fails.
LookupFailed(l) ==
  /\ ~panicked /\ lpc[l] = "lookup"
  /\ lpc' = [lpc EXCEPT ![l] = "failed"]
  /\ UNCHANGED <<hosts, recs, mu, lhost, lsip, lr, cpc, cl, nlook, panicked>>

\* A goroutine that gives up after a failed lookup.
LogFailedReturns(l) ==
  /\ ~panicked /\ lpc[l] = "failed"
  /\ lpc' = [lpc EXCEPT ![l] = "done"]
  /\ UNCHANGED <<hosts, recs, mu, lhost, lsip, lr, cpc, cl, nlook, panicked>>

\* Lines 63-65: the failure is logged, nothing else.
LogFailed(l) ==
  /\ ~panicked /\ lpc[l] = "failed"
  /\ lpc' = [lpc EXCEPT ![l] = "sleep"]
  /\ UNCHANGED <<hosts, recs, mu, lhost, lsip, lr, cpc, cl, nlook, panicked>>

\* An update that puts the record of a removed host back into the map.
UpdateLoadReinsert(l) ==
  /\ ~panicked /\ lpc[l] = "update"
  /\ mu = 0
  /\ hosts' = [hosts EXCEPT ![lhost[l]] = IF @ = 0 THEN l ELSE @]
  /\ lr' = [lr EXCEPT ![l] = hosts'[lhost[l]]]
  /\ lpc' = [lpc EXCEPT ![l] = "w_ip4"]
  /\ UNCHANGED <<recs, mu, lhost, lsip, cpc, cl, nlook, panicked>>

\* Lines 182-188: r, ok := s.hosts[host] under RLock. Not ok: updateHostIPs
\* returns false and the goroutine returns (lines 59-61).
UpdateLoad(l) ==
  /\ ~panicked /\ lpc[l] = "update"
  /\ mu = 0
  /\ IF InRegistry(lhost[l])
     THEN /\ lr' = [lr EXCEPT ![l] = hosts[lhost[l]]]
          /\ lpc' = [lpc EXCEPT ![l] = "w_ip4"]
          /\ lsip' = lsip
     ELSE /\ lpc' = [lpc EXCEPT ![l] = "done"]
          /\ lsip' = [lsip EXCEPT ![l] = Nil]
          /\ lr' = lr
  /\ UNCHANGED <<hosts, recs, mu, lhost, cpc, cl, nlook, panicked>>

\* One of the assignments of lines 215-218, made with no lock held.
UpdateWrite(l, at, rec, next) ==
  /\ ~panicked /\ lpc[l] = at
  /\ recs' = [recs EXCEPT ![lr[l]] = rec]
  /\ lpc' = [lpc EXCEPT ![l] = next]
  /\ UNCHANGED <<hosts, mu, lhost, lsip, lr, cpc, cl, nlook, panicked>>

UpdateIp4(l) ==
  UpdateWrite(l, "w_ip4", [recs[lr[l]] EXCEPT !.ip4 = NewIp4(lsip[l])], "w_ip6")

UpdateIp6(l) ==
  UpdateWrite(l, "w_ip6", [recs[lr[l]] EXCEPT !.ip6 = NewIp6(lsip[l])], "w_ipv4")

UpdateIpv4(l) ==
  UpdateWrite(l, "w_ipv4", [recs[lr[l]] EXCEPT !.ipv4 = NewIpv4(lsip[l])], "w_ipv6")

UpdateIpv6(l) ==
  UpdateWrite(l, "w_ipv6", [recs[lr[l]] EXCEPT !.ipv6 = NewIpv6(lsip[l])], "r_idx")

\* updateHostIPs returns true: the goroutine goes to sleep.
UpdateDone(l) ==
  /\ lpc' = [lpc EXCEPT ![l] = "sleep"]
  /\ lsip' = [lsip EXCEPT ![l] = Nil]
  /\ lr' = [lr EXCEPT ![l] = 0]

\* Line 220: the test r.idx > len(ipsv4)-1.
UpdateTestIdx(l) ==
  /\ ~panicked /\ lpc[l] = "r_idx"
  /\ IF recs[lr[l]].idx > Len(NewIp4(lsip[l])) - 1
     THEN /\ lpc' = [lpc EXCEPT ![l] = "w_idx"]
          /\ UNCHANGED <<lsip, lr>>
     ELSE UpdateDone(l)
  /\ UNCHANGED <<hosts, recs, mu, lhost, cpc, cl, nlook, panicked>>

\* Line 221: r.idx = 0.
UpdateResetIdx(l) ==
  /\ ~panicked /\ lpc[l] = "w_idx"
  /\ recs' = [recs EXCEPT ![lr[l]].idx = 0]
  /\ UpdateDone(l)
  /\ UNCHANGED <<hosts, mu, lhost, cpc, cl, nlook, panicked>>

updateHostIPs(l) ==
  \/ UpdateLoad(l)
  \/ UpdateIp4(l)
  \/ UpdateIp6(l)
  \/ UpdateIpv4(l)
  \/ UpdateIpv6(l)
  \/ UpdateTestIdx(l)
  \/ UpdateResetIdx(l)

\* Line 67: time.Sleep returns.
Sleep(l) ==
  /\ ~panicked /\ lpc[l] = "sleep"
  /\ lpc' = [lpc EXCEPT ![l] = "lookup"]
  /\ UNCHANGED <<hosts, recs, mu, lhost, lsip, lr, cpc, cl, nlook, panicked>>

\* One step of refresh goroutine l.
RefreshLoop(l) ==
  \/ LookupHost(l)
  \/ LookupFailed(l)
  \/ LogFailed(l)
  \/ updateHostIPs(l)
  \/ Sleep(l)

Next ==
  \/ \E c \in Callers, host \in Hosts : AddHost(c, host) /\ UNCHANGED <<rot, nlook>>
  \/ \E c \in Callers, host \in Hosts : DelHost(c, host) /\ UNCHANGED <<rot, nlook>>
  \/ \E c \in Callers : Stop(c) /\ UNCHANGED <<rot, nlook>>
  \/ \E c \in Callers : GetNextIPWithIdx(c) /\ UNCHANGED <<rot, nlook>>
  \/ \E c \in Callers : GetIPs(c) /\ UNCHANGED <<rot, nlook>>
  \/ \E c \in Callers : GetIPsStr(c) /\ UNCHANGED <<rot, nlook>>
  \/ \E c \in Callers, prefix \in Prefixes : DumpPrefix(c, prefix) /\ UNCHANGED <<rot, nlook>>
  \/ \E l \in Loops : RefreshLoop(l) /\ UNCHANGED rot

Spec == Init /\ [][Next]_vars

\* The refresh goroutines are scheduled fairly: a goroutine that can take a
\* step eventually takes one.
FairSpec == Spec /\ \A l \in Loops : WF_vars(RefreshLoop(l) /\ UNCHANGED rot)

\* ---------------------------------------------------------------------------
\* The rotation alone: one registered host whose record holds the outcome of
\* a finished update, its refresh goroutine asleep, callers racing for
\* GetNextIPWithIdx
\* ---------------------------------------------------------------------------

\* The record a finished update of an empty record leaves for the list sip.
Installed(sip, idx) ==
  [idx |-> idx, ip4 |-> NewIp4(sip), ip6 |-> NewIp6(sip),
   ipv4 |-> NewIpv4(sip), ipv6 |-> NewIpv6(sip)]

InitRR ==
  /\ \E sip \in LookupResults("a"), i \in 0..2 :
       /\ i < Len(NewIp4(sip)) \/ i = 0
       /\ recs = <<Installed(sip, i)>>
       /\ rot = [base |-> i, seq |-> <<>>]
  /\ hosts = [h \in Hosts |-> IF h = "a" THEN 1 ELSE 0]
  /\ mu = 0
  /\ lpc = [l \in Loops |-> IF l = 1 THEN "sleep" ELSE "idle"]
  /\ lhost = [l \in Loops |-> IF l = 1 THEN "a" ELSE ""]
  /\ lsip = [l \in Loops |-> Nil]
  /\ lr = [l \in Loops |-> 0]
  /\ cpc = [c \in RRCallers |-> "idle"]
  /\ cl = [c \in RRCallers |-> CIdle]
  /\ nlook = 1
  /\ panicked = FALSE

\* A step of a GetNextIPWithIdx call; a call that returns an address enters
\* the history.
RRCall(c) ==
  /\ Len(rot.seq) < MaxCalls
  /\ GetNextIPWithIdx(c)
  /\ rot' = IF cpc[c] = "gn_ret"
            THEN [rot EXCEPT !.seq = Append(@, [idx |-> cl'[c].idx, ip |-> cl'[c].ip])]
            ELSE rot
  /\ nlook' = nlook

NextRR == \E c \in RRCallers : RRCall(c)

SpecRR == InitRR /\ [][NextRR]_vars

\* ---------------------------------------------------------------------------
\* Properties
\* ---------------------------------------------------------------------------

RegistryOps == {"AddHost", "DelHost", "Stop"}

QueryOps == {"GetNextIPWithIdx", "GetIPs", "GetIPsStr"}

\* Caller c takes a step.
Moves(c) == cpc'[c] # cpc[c] \/ cl'[c] # cl[c]

\* Caller c begins a call (its first step runs under s.mu).
Begins(c) == cpc[c] \in {"idle", "ret"} /\ Moves(c)

\* The refresh goroutines that have been started.
Started == {l \in Loops : lpc[l] # "idle"}

\* C1: Register is idempotent. AddHost on a host that is in the registry
\* leaves the registry, every record and every refresh goroutine as they were;
\* AddHost on an absent host appends exactly one empty record, maps the host to
\* it and starts exactly one goroutine, the one of that record. At all times
\* there are as many started goroutines as records.
C1_RegisterIdempotent ==
  [][\A c \in Callers, h \in Hosts :
       AddHost(c, h) =>
         /\ IF InRegistry(h)
            THEN UNCHANGED <<hosts, recs, lpc, lhost, lsip, lr>>
            ELSE /\ Len(recs') = Len(recs) + 1
                 /\ recs'[Len(recs')] = EmptyRec
                 /\ \A k \in 1..Len(recs) : recs'[k] = recs[k]
                 /\ hosts' = [hosts EXCEPT ![h] = Len(recs')]
                 /\ {l \in Loops : lpc'[l] # lpc[l]} = {Len(recs')}
                 /\ lpc[Len(recs')] = "idle" /\ lpc'[Len(recs')] = "lookup"
                 /\ lhost'[Len(recs')] = h
         /\ Cardinality({l \in Loops : lpc'[l] # "idle"}) = Len(recs')
    ]_vars

\* Register was called on a host already in the registry whose record holds
\* addresses and whose goroutine is asleep: all of it is still there.
C1_Witness ==
  \E c \in Callers :
    /\ cpc[c] = "ret" /\ cl[c].op = "AddHost" /\ cl[c].ok
    /\ hosts[cl[c].host] = cl[c].r
    /\ recs[cl[c].r].ip4 # Nil
    /\ lpc[cl[c].r] = "sleep"
    /\ Cardinality(Started) = 1

\* C2: the record of a registered host is written only by the goroutine
\* started by the AddHost that created it: inside updateHostIPs, goroutine l
\* holds no record but record l.
C2_OnlyOwnLoopWrites == \A l \in Loops : lr[l] \in {0, l}

\* C3: once a host has been removed for good, its refresh goroutine eventually
\* returns, whatever its lookups answer.
C3_LoopTerminates ==
  \A l \in Loops :
    <>[](lpc[l] # "idle" /\ ~InRegistry(lhost[l]) /\ ~panicked) => <>(lpc[l] = "done")

\* C4: the cursor of every record in the registry is 0 when the record has no
\* IPv4 address and within the list otherwise.
C4_CursorValid ==
  \A h \in Hosts :
    InRegistry(h) =>
      LET r == recs[hosts[h]]
      IN  IF r.ip4 = <<>> THEN r.idx = 0 ELSE r.idx >= 0 /\ r.idx <= Len(r.ip4) - 1

\* C5: no call panics, and the index GetNextIPWithIdx returns is the position
\* it took the returned address from.
C5_NoPanic ==
  /\ ~panicked
  /\ \A c \in Callers :
       (cpc[c] = "ret" /\ cl[c].op = "GetNextIPWithIdx" /\ cl[c].idx # -1)
         => cl[c].idx = cl[c].at

\* The addresses of a list.
Range(ss) == {ss[i] : i \in 1..Len(ss)}

\* C6: round-robin with wraparound. With n addresses and the cursor at c, the
\* k-th call of a run returns index (c + k) mod n and the address at that
\* index, so that any n consecutive calls return every address.
C6_RoundRobin ==
  LET ip4 == recs[1].ip4
      n == Len(ip4)
  IN  /\ \A k \in 1..Len(rot.seq) :
           /\ rot.seq[k].idx = (rot.base + k) % n
           /\ rot.seq[k].ip = ip4[rot.seq[k].idx + 1]
      /\ \A j \in 0..(Len(rot.seq) - n) :
           n >= 1 => {rot.seq[j + i].ip : i \in 1..n} = Range(ip4)

\* Three addresses, cursor 0: four calls have returned indices 1, 2, 0, 1.
C6_Witness ==
  /\ Len(recs[1].ip4) = 3 /\ rot.base = 0
  /\ [k \in 1..Len(rot.seq) |-> rot.seq[k].idx] = <<1, 2, 0, 1>>
  /\ \E c \in RRCallers, d \in RRCallers : c # d /\ cpc[c] = "ret" /\ cpc[d] = "ret"
                                           /\ cl[c].idx = 0 /\ cl[d].idx = 1

\* C7: the sentinels. A query that finds its host absent returns ("", -1) or
\* (nil, nil); GetNextIPWithIdx on a record without IPv4 address returns
\* ("", -1) and leaves the cursor; no query changes the registry or allocates
\* a record.
C7_Sentinels ==
  [][\A c \in Callers :
       /\ (Begins(c) /\ cl'[c].op \in QueryOps /\ ~InRegistry(cl'[c].host)) =>
            /\ cpc'[c] = "ret"
            /\ cl'[c].ip = "" /\ GetNextIP(cl'[c]) = ""
            /\ cl'[c].op = "GetNextIPWithIdx" => cl'[c].idx = -1
            /\ cl'[c].v4 = Nil /\ cl'[c].v6 = Nil
       /\ (cpc[c] = "gn_len" /\ Moves(c) /\ Len(recs[cl[c].r].ip4) = 0) =>
            /\ cpc'[c] = "ret"
            /\ cl'[c].ip = "" /\ cl'[c].idx = -1 /\ GetNextIP(cl'[c]) = ""
            /\ recs' = recs
       /\ (Moves(c) /\ cl'[c].op \in QueryOps) =>
            hosts' = hosts /\ Len(recs') = Len(recs)
    ]_vars

\* GetNextIPWithIdx answered ("", -1) for a registered host whose record has
\* no IPv4 address although a lookup for it has succeeded.
C7_Witness ==
  \E c \in Callers :
    /\ cpc[c] = "ret" /\ cl[c].op = "GetNextIPWithIdx" /\ cl[c].ok
    /\ cl[c].idx = -1 /\ cl[c].ip = ""
    /\ hosts[cl[c].host] = cl[c].r
    /\ recs[cl[c].r].ip4 = Nil
    /\ lpc[cl[c].r] = "sleep" /\ nlook = MaxLookups

\* The refresh goroutine l is in the middle of a cycle.
MidCycle(l) == lpc[l] \notin {"idle", "sleep", "done"}

\* C8: the set of registered host names changes only in AddHost, DelHost and
\* Stop; no step of a refresh goroutine changes the registry; and a query for
\* a removed host returns the sentinel also while a goroutine started for that
\* host is in the middle of a cycle.
C8_RemovedStaysRemoved ==
  [][/\ hosts' # hosts =>
          \E c \in Callers : /\ cpc[c] \in {"idle", "ret"} /\ mu = 0
                              /\ cpc'[c] = "ret" /\ cl'[c].op \in RegistryOps
     /\ hosts' # hosts => \A l \in Loops : lpc'[l] # lpc[l] => lpc[l] = "idle"
     /\ \A l \in Loops : lpc'[l] # lpc[l] /\ lpc[l] # "idle" => hosts' = hosts
     /\ \A c \in Callers, l \in Loops :
          ( /\ Begins(c) /\ cl'[c].op \in QueryOps
            /\ cl'[c].host = lhost[l] /\ MidCycle(l)
            /\ ~InRegistry(lhost[l]) ) =>
            /\ cpc'[c] = "ret"
            /\ ~cl'[c].ok
            /\ cl'[c].ip = "" /\ cl'[c].v4 = Nil /\ cl'[c].v6 = Nil
            /\ cl'[c].op = "GetNextIPWithIdx" => cl'[c].idx = -1
    ]_vars

\* A host was removed while its goroutine held a lookup result; the goroutine
\* then found the host gone and returned, and a query for the host has
\* answered with the sentinel.
C8_Witness ==
  \E c \in Callers, l \in Loops :
    /\ lpc[l] = "done" /\ nlook >= 1
    /\ ~InRegistry(lhost[l])
    /\ cpc[c] = "ret" /\ cl[c].op = "GetIPsStr" /\ cl[c].host = lhost[l]
    /\ ~cl[c].ok /\ cl[c].v4 = Nil /\ cl[c].v6 = Nil

\* C9: a cycle whose lookup fails changes no record and no registry entry.
C9_StaleButAvailable ==
  [][\A l \in Loops :
       ( \/ lpc[l] = "lookup" /\ lpc'[l] = "failed"
         \/ lpc[l] = "failed" /\ lpc'[l] = "sleep" ) =>
         recs' = recs /\ hosts' = hosts
    ]_vars

\* A lookup has failed for a registered host whose record holds the addresses
\* of an earlier lookup.
C9_Witness ==
  \E l \in Loops :
    /\ lpc[l] = "failed" /\ nlook >= 1
    /\ hosts[lhost[l]] = l
    /\ recs[l].ip4 # Nil /\ recs[l].ip6 # Nil
    /\ \E c \in Callers : cpc[c] = "ret" /\ cl[c].op = "GetIPsStr" /\ cl[c].r = l
                          /\ cl[c].v4 = recs[l].ip4 /\ cl[c].v6 = recs[l].ip6

\* The pairs (ipv4, ipv6) a finished update of host h can leave, in string
\* and in parsed form.
StrPairs(h) == {<<Nil, Nil>>} \cup {<<NewIp4(sip), NewIp6(sip)>> : sip \in LookupResults(h)}

BinPairs(h) == {<<Nil, Nil>>} \cup {<<NewIpv4(sip), NewIpv6(sip)>> : sip \in LookupResults(h)}

\* C10: the pair of lists GetIPsStr or GetIPs returns is the outcome of one
\* update cycle (or the empty record).
C10_SnapshotConsistent ==
  \A c \in Callers :
    cpc[c] = "ret" =>
      /\ cl[c].op = "GetIPsStr" => <<cl[c].v4, cl[c].v6>> \in StrPairs(cl[c].host)
      /\ cl[c].op = "GetIPs" => <<cl[c].v4, cl[c].v6>> \in BinPairs(cl[c].host)

\* The number of times x occurs in the list ss.
Count(x, ss) == Cardinality({i \in 1..Len(ss) : ss[i] = x})

\* ss is in ascending byte order.
IsSorted(ss) == \A i \in 1..(Len(ss) - 1) : ~StrLess(ss[i + 1], ss[i])

\* ss holds, in ascending order, exactly the strings of sip that parse as an
\* address and that contain a colon (colon = TRUE) or none (colon = FALSE).
IsFamilyList(ss, sip, colon) ==
  /\ IsSorted(ss)
  /\ \A i \in 1..Len(ss) : ss[i] \in AddrStrings
  /\ \A s \in AddrStrings :
       Count(s, ss) = IF ParseIP(s) # Nil /\ (ContainsByte(Chars(s), Colon) <=> colon)
                      THEN Count(s, sip) ELSE 0

\* Goroutine l returns from updateHostIPs with true.
UpdateReturns(l) == lpc[l] \in {"r_idx", "w_idx"} /\ lpc'[l] = "sleep"

\* No goroutine is inside an update of the record of host h.
Quiet(h) == \A l \in Loops : lr[l] # hosts[h]

\* C11: result of a successful resolution. Once the updates of a registered
\* host have returned, the ip4 of its record is the sorted list of the
\* parseable strings without a colon of one list sip the lookup returned, and
\* its ip6 the sorted list of the parseable strings of that sip with a colon;
\* unparseable strings are in neither (a record never updated has neither).
C11_ResolutionResult ==
  \A h \in Hosts :
    (InRegistry(h) /\ Quiet(h)) =>
      LET r == recs[hosts[h]]
      IN  \/ r.ip4 = Nil /\ r.ip6 = Nil
          \/ \E sip \in LookupResults(h) :
               IsFamilyList(r.ip4, sip, FALSE) /\ IsFamilyList(r.ip6, sip, TRUE)

\* The names in the registry.
Registered == {h \in Hosts : InRegistry(h)}

LineFamily(ln) == ln[2]

LineHost(ln) == ln[3]

LineIdx(ln) == ln[5]

LineIp(ln) == ln[7]

\* ln has the form "<prefix>resolver.v4.<host>.<idx>: <ip>\n" (or v6).
WellFormed(ln, prefix) ==
  /\ ln[1] = prefix
  /\ LineFamily(ln) \in {"resolver.v4.", "resolver.v6."}
  /\ ln[4] = "." /\ ln[6] = ": " /\ ln[8] = "\n"

\* The lines w are ordered by host name, then IPv4 before IPv6, then by
\* address, and idx counts the earlier lines of the same host and family.
DumpOrdered(w) ==
  /\ \A i \in 1..Len(w), j \in 1..Len(w) :
       i < j =>
         /\ ~StrLess(LineHost(w[j]), LineHost(w[i]))
         /\ LineHost(w[i]) = LineHost(w[j]) =>
              /\ LineFamily(w[i]) = "resolver.v6." => LineFamily(w[j]) = "resolver.v6."
              /\ LineFamily(w[i]) = LineFamily(w[j]) => ~StrLess(LineIp(w[j]), LineIp(w[i]))
  /\ \A i \in 1..Len(w) :
       LineIdx(w[i]) = Cardinality({k \in 1..(i - 1) :
                                      /\ LineHost(w[k]) = LineHost(w[i])
                                      /\ LineFamily(w[k]) = LineFamily(w[i])})

\* The step from w to w2 wrote one line per address of the list ss, all of
\* them for host h and the given family.
WroteFamily(w, w2, h, family, ss) ==
  /\ Len(w2) = Len(w) + Len(ss)
  /\ SubSeq(w2, 1, Len(w)) = w
  /\ \A i \in (Len(w) + 1)..Len(w2) : LineHost(w2[i]) = h /\ LineFamily(w2[i]) = family
  /\ \A s \in AddrStrings :
       Cardinality({i \in (Len(w) + 1)..Len(w2) : LineIp(w2[i]) = s}) = Count(s, ss)

\* C13: Dump ordering. DumpPrefix visits the registered hosts in the order of
\* their names; for each it writes one line per address of ip4, then one line
\* per address of ip6 (none for an empty list); all that it has written is
\* ordered by host, family and address, idx is the 0-based position within
\* the family, and every line carries the prefix of the call.
C13_DumpOrdering ==
  [][\A c \in Callers :
       /\ (Begins(c) /\ cl'[c].op = "DumpPrefix") =>
            /\ cl'[c].w = <<>>
            /\ cpc'[c] = "ret" <=> Registered = {}
            /\ cpc'[c] # "ret" => IsSorted(cl'[c].hs) /\ Range(cl'[c].hs) = Registered
                                  /\ Len(cl'[c].hs) = Cardinality(Registered)
       /\ (cpc[c] = "dp_v4" /\ Moves(c)) =>
            /\ WroteFamily(cl[c].w, cl'[c].w, Head(cl[c].hs), "resolver.v4.",
                           recs[hosts[Head(cl[c].hs)]].ip4)
            /\ cpc'[c] = "dp_v6" /\ cl'[c].hs = cl[c].hs
       /\ (cpc[c] = "dp_v6" /\ Moves(c)) =>
            /\ WroteFamily(cl[c].w, cl'[c].w, Head(cl[c].hs), "resolver.v6.",
                           recs[hosts[Head(cl[c].hs)]].ip6)
            /\ cl'[c].hs = Tail(cl[c].hs)
            /\ cpc'[c] = "ret" <=> cl'[c].hs = <<>>
       /\ cl'[c].op = "DumpPrefix" =>
            /\ DumpOrdered(cl'[c].w)
            /\ \A i \in 1..Len(cl'[c].w) : WellFormed(cl'[c].w[i], cl'[c].prefix)
            /\ Moves(c) /\ ~Begins(c) => cl'[c].prefix = cl[c].prefix
    ]_vars

\* DumpPrefix with prefix "x." has returned four lines: two IPv4 and one IPv6
\* of host "a", then one IPv4 of host "b".
C13_Witness ==
  \E c \in Callers :
    /\ cpc[c] = "ret" /\ cl[c].op = "DumpPrefix" /\ cl[c].prefix = "x."
    /\ [i \in 1..Len(cl[c].w) |-> <<LineHost(cl[c].w[i]), LineFamily(cl[c].w[i]), LineIdx(cl[c].w[i])>>]
         = << <<"a", "resolver.v4.", 0>>, <<"a", "resolver.v4.", 1>>,
              <<"a", "resolver.v6.", 0>>, <<"b", "resolver.v4.", 0>> >>
    /\ LineIp(cl[c].w[1]) = "10.0.0.1" /\ LineIp(cl[c].w[3]) = "::1"

\* Goroutine l has written some of the four lists of its update but not all.
BetweenWrites(l) == lpc[l] \in {"w_ip6", "w_ipv4", "w_ipv6"}

\* Caller c is reading the fields of record r outside the lock (GetIPs,
\* GetIPsStr) or inside it (GetNextIPWithIdx, DumpPrefix).
ReadsRecord(c, r) ==
  \/ cpc[c] \in {"gi_v4", "gi_v6", "gs_v4", "gs_v6"} /\ cl[c].r = r
  \/ cpc[c] \in {"gn_len", "gn_ridx", "gn_widx", "gn_rip", "gn_at", "gn_ret"} /\ cl[c].r = r
  \/ cpc[c] \in {"dp_v4", "dp_v6"} /\ \E i \in 1..Len(cl[c].hs) : hosts[cl[c].hs[i]] = r

\* C14: an update is one critical section. While a refresh goroutine is
\* between two of the field writes of an update, no caller holds s.mu, shared
\* or exclusively, and no caller is reading the record.
C14_UpdateUnderLock ==
  \A l \in Loops :
    BetweenWrites(l) =>
      /\ mu = 0 /\ RHeld = {}
      /\ \A c \in Callers : ~ReadsRecord(c, lr[l])

\* Goroutine l is in net.LookupHost, in the logging of a failure or in
\* time.Sleep.
Outside(l) == lpc[l] \in {"lookup", "failed", "sleep"}

\* Caller c can begin each of the operations on host h.
CanBeginAll(c, h) ==
  /\ ENABLED DelHost(c, h)
  /\ ENABLED Stop(c)
  /\ ENABLED GetNextBegin(c, h)
  /\ ENABLED GetIPs(c)
  /\ ENABLED GetIPsStr(c)
  /\ ENABLED Dump(c)
  /\ InRegistry(h) \/ Len(recs) < MaxRecs => ENABLED AddHost(c, h)

\* C15: net.LookupHost and time.Sleep run with no lock held. s.mu is held
\* only by a caller inside GetNextIPWithIdx or DumpPrefix, and a goroutine
\* in its lookup or its sleep is outside updateHostIPs. So whatever
\* goroutines sit in a lookup or a sleep, every acquisition of s.mu succeeds
\* once no caller holds it: a caller can begin every operation, and every
\* other goroutine can make the map read of its update.
C15_LookupHoldsNoLock ==
  /\ mu # 0 => mu \in Callers /\ cpc[mu] \in {"gn_len", "gn_ridx", "gn_widx", "gn_rip", "gn_at", "gn_ret"}
  /\ \A l \in Loops : Outside(l) => lr[l] = 0
  /\ (~panicked /\ \E l \in Loops : Outside(l)) =>
       /\ \A c \in Callers, h \in Hosts :
            (cpc[c] \in {"idle", "ret"} /\ mu = 0 /\ RHeld = {}) => CanBeginAll(c, h)
       /\ \A k \in Loops : (lpc[k] = "update" /\ mu = 0) => ENABLED UpdateLoad(k)

\* The goroutine of one host sits in its first lookup, the record still
\* empty, while the goroutine of another host has finished a cycle and a call
\* of GetNextIPWithIdx for that host has returned an address.
C15_Witness ==
  \E l \in Loops, k \in Loops, c \in Callers :
    /\ l # k /\ lhost[l] # lhost[k]
    /\ lpc[l] = "lookup" /\ hosts[lhost[l]] = l /\ recs[l] = EmptyRec
    /\ lpc[k] = "sleep" /\ hosts[lhost[k]] = k /\ recs[k].ip4 # Nil
    /\ cpc[c] = "ret" /\ cl[c].op = "GetNextIPWithIdx" /\ cl[c].r = k /\ cl[c].idx # -1

\* The length of the IPv4 list an update installs for the lookup result sip.
V4Count(sip) ==
  Cardinality({i \in 1..Len(sip) : ParseIP(sip[i]) # Nil /\ ~ContainsByte(Chars(sip[i]), Colon)})

\* C16: cursor on update. When an update that installs an IPv4 list of length
\* m finishes on a record whose cursor is c, it leaves the cursor 0 if
\* c > m - 1 and leaves it c if c <= m - 1.
C16_CursorOnUpdate ==
  [][\A l \in Loops :
       UpdateReturns(l) =>
         LET c == recs[lr[l]].idx
             m == V4Count(lsip[l])
         IN  recs'[lr[l]].idx = IF c > m - 1 THEN 0 ELSE c
    ]_vars

\* C17: lifecycle of a refresh goroutine. It returns only from the map read
\* of updateHostIPs, and only when that read finds no entry for its host; a
\* read that finds an entry goes on to the writes. A failed lookup leads to
\* the sleep and the sleep to the next lookup, both of which can always take
\* place. A goroutine that has returned takes no further step: it holds no
\* lookup result and no record, and stays returned.
C17_LoopLifecycle ==
  [][\A l \in Loops :
       /\ (lpc[l] # "done" /\ lpc'[l] = "done") =>
            lpc[l] = "update" /\ ~InRegistry(lhost[l]) /\ mu = 0
       /\ (lpc[l] = "update" /\ lpc'[l] # "update" /\ InRegistry(lhost[l])) =>
            lpc'[l] = "w_ip4" /\ lr'[l] = hosts[lhost[l]]
       /\ (lpc[l] = "lookup" /\ lpc'[l] # "lookup") => lpc'[l] \in {"update", "failed"}
       /\ (lpc[l] = "failed" /\ lpc'[l] # "failed") => lpc'[l] = "sleep"
       /\ (lpc[l] = "sleep" /\ lpc'[l] # "sleep") => lpc'[l] = "lookup"
       /\ (lpc[l] = "failed" /\ ~panicked) => ENABLED LogFailed(l)
       /\ (lpc[l] = "sleep" /\ ~panicked) => ENABLED Sleep(l)
       /\ (lpc[l] = "lookup" /\ ~panicked) => ENABLED LookupFailed(l)
       /\ lpc[l] = "done" =>
            /\ lpc'[l] = "done" /\ lhost'[l] = lhost[l]
            /\ lr[l] = 0 /\ lr'[l] = 0 /\ lsip[l] = Nil /\ lsip'[l] = Nil
            /\ ~ENABLED RefreshLoop(l)
    ]_vars

\* One goroutine has returned, its host removed; another, whose host has been
\* registered all along, has finished a cycle, slept, and had its next lookup
\* fail.
C17_Witness ==
  \E l \in Loops, k \in Loops :
    /\ lpc[l] = "done" /\ ~InRegistry(lhost[l])
    /\ lpc[k] = "failed" /\ hosts[lhost[k]] = k /\ recs[k].ip4 # Nil

\* Element i of the parsed list bin is the parsed form of element i of the
\* string list str, and str is in ascending order.
SameOrder(bin, str) ==
  /\ Len(bin) = Len(str)
  /\ \A i \in 1..Len(str) : bin[i] = ParseIP(str[i])
  /\ IsSorted(str)

\* C18: once the updates of a registered host have returned, ipv4 and ip4
\* (and ipv6 and ip6) of its record hold the same addresses in the same,
\* ascending, order.
C18_BinaryMatchesString ==
  \A h \in Hosts :
    (InRegistry(h) /\ Quiet(h)) =>
      /\ SameOrder(recs[hosts[h]].ipv4, recs[hosts[h]].ip4)
      /\ SameOrder(recs[hosts[h]].ipv6, recs[hosts[h]].ip6)

\* Record k differs between the two states of a step in nothing but its cursor.
OnlyCursor(k) == [recs'[k] EXCEPT !.idx = recs[k].idx] = recs[k]

\* C19: frame of the queries and of the update. A step of GetNextIPWithIdx
\* changes at most the cursor of the record it found for its host; a step of
\* GetIPs, GetIPsStr or DumpPrefix changes neither the registry nor any
\* record nor any goroutine; a step of the goroutine of host A changes no
\* record that was created for another host, and not the registry.
C19_Frame ==
  [][/\ \A c \in Callers :
          /\ (Moves(c) /\ cl'[c].op = "GetNextIPWithIdx") =>
               /\ UNCHANGED <<hosts, lpc, lhost, lsip, lr>>
               /\ Len(recs') = Len(recs)
               /\ \A k \in 1..Len(recs) :
                    IF k = cl'[c].r /\ hosts[cl'[c].host] = k
                    THEN OnlyCursor(k) ELSE recs'[k] = recs[k]
          /\ (Moves(c) /\ cl'[c].op \in {"GetIPs", "GetIPsStr", "DumpPrefix"}) =>
               UNCHANGED <<hosts, recs, mu, lpc, lhost, lsip, lr, panicked>>
     /\ \A l \in Loops :
          (lpc'[l] # lpc[l] /\ lpc[l] # "idle") =>
            /\ hosts' = hosts
            /\ Len(recs') = Len(recs)
            /\ \A k \in 1..Len(recs) : lhost[k] # lhost[l] => recs'[k] = recs[k]
    ]_vars

\* GetNextIPWithIdx has returned index 1 for one host while the record of
\* another host holds addresses and its cursor is still 0.
C19_Witness ==
  \E c \in Callers, k \in Loops :
    /\ cpc[c] = "ret" /\ cl[c].op = "GetNextIPWithIdx" /\ cl[c].idx = 1
    /\ hosts[cl[c].host] = cl[c].r /\ recs[cl[c].r].idx = 1
    /\ k # cl[c].r /\ lpc[k] # "idle" /\ hosts[lhost[k]] = k
    /\ recs[k].ip4 # Nil /\ recs[k].idx = 0

\* C20: re-registration starts from an empty record. DelHost takes the entry
\* of its host out of the map; an AddHost that finds its host absent maps it
\* to a record allocated in that call, with no address and cursor 0, and no
\* name is ever mapped back to an older record; a query that begins on a
\* registered host works on the record the map holds then. The address lists
\* of a record change only in a field write of updateHostIPs made by a
\* goroutine of the record's host, and until the first such write
\* GetNextIPWithIdx answers ("", -1) for the new record.
C20_FreshRecord ==
  [][/\ \A c \in Callers :
          /\ (Begins(c) /\ cl'[c].op = "DelHost") => hosts'[cl'[c].host] = 0
          /\ (Begins(c) /\ cl'[c].op = "AddHost" /\ ~InRegistry(cl'[c].host)) =>
               LET new == hosts'[cl'[c].host]
               IN  /\ new = Len(recs) + 1 /\ Len(recs') = new
                   /\ recs'[new].idx = 0
                   /\ recs'[new].ip4 = <<>> /\ recs'[new].ip6 = <<>>
                   /\ recs'[new].ipv4 = <<>> /\ recs'[new].ipv6 = <<>>
          /\ (Begins(c) /\ cl'[c].op \in QueryOps /\ InRegistry(cl'[c].host)) =>
               cl'[c].r = hosts[cl'[c].host]
          /\ (cpc[c] = "gn_len" /\ Moves(c) /\ recs[cl[c].r].ip4 = <<>>) =>
               cpc'[c] = "ret" /\ cl'[c].ip = "" /\ cl'[c].idx = -1
     /\ \A h \in Hosts : hosts'[h] \in {hosts[h], 0, Len(recs) + 1}
     /\ \A k \in 1..Len(recs) :
          recs'[k].ip4 # recs[k].ip4 =>
            \E l \in Loops : /\ lr[l] = k /\ lhost[l] = lhost[k]
                             /\ lpc[l] = "w_ip4" /\ lpc'[l] = "w_ip6"
    ]_vars

\* Host "a" was registered, resolved, queried, removed and registered again:
\* its old record holds three addresses and cursor 1, the map holds a new,
\* empty record, and GetNextIPWithIdx for the host has answered ("", -1).
C20_Witness ==
  \E c \in Callers :
    /\ cpc[c] = "ret" /\ cl[c].op = "GetNextIPWithIdx" /\ cl[c].ok
    /\ cl[c].r = 2 /\ hosts[cl[c].host] = 2 /\ lhost[1] = cl[c].host
    /\ cl[c].ip = "" /\ cl[c].idx = -1
    /\ Len(recs[1].ip4) = 3 /\ recs[1].idx = 1
    /\ recs[2] = EmptyRec

====
